---------------------------- MODULE Spec2Model ----------------------------
(***************************************************************************)
(* Model of PICMI_Python/diagnostics.py: the five diagnostic classes, each *)
(* of which has one operation, its constructor.  A constructor call is     *)
(* modelled by Python's argument binding (Enter) followed by the           *)
(* statements of the __init__ body, executed in order (RunFrom).           *)
(*                                                                         *)
(* Python values are tuples of strings, so that any two values compare:    *)
(*   <<"None">>             the None object                                *)
(*   <<"val", s>>           an opaque scalar                               *)
(*   <<"list", id>>         a reference to the list object id of the heap  *)
(*   <<"grid", a, b, c>>    a grid object; a, b, c tell what its           *)
(*                          number_of_cells, lower_bound and upper_bound   *)
(*                          attributes hold ("missing": no such attribute, *)
(*                          "None": the attribute is None, else a scalar)  *)
(* and <<"omitted">> marks a keyword the call does not pass.               *)
(***************************************************************************)
EXTENDS Integers, Sequences, FiniteSets, Bags, TLC

VARIABLES
    heap,     \* list objects: list id -> contents
    objs,     \* the diagnostic objects the caller holds (a bag)
    pc,       \* the caller: "idle", "call" (a call is pending), "returned"
    cls,      \* class of the pending / latest constructor call
    args,     \* its keyword arguments
    self,     \* the object under construction (attribute -> value)
    fault,    \* the exception the latest call raised, or NoFault
    events,   \* what the latest call did, in order: stores, grid reads, handle_init
    handed,   \* the mappings the latest call passed to handle_init
    ret,      \* whether the latest call returned an object to the caller
    edits     \* number of in-place list edits so far

vars == <<heap, objs, pc, cls, args, self, fault, events, handed, ret, edits>>

---------------------------------------------------------------------------
\* Bounds of the model

MaxObjs == 2          \* diagnostic objects held at once
MaxEdits == 2         \* in-place edits of list objects

---------------------------------------------------------------------------
\* Python values

None == <<"None">>
Omitted == <<"omitted">>
Val(s) == <<"val", s>>
ListRef(id) == <<"list", id>>
Grid(a, b, c) == <<"grid", a, b, c>>

NoFault == "none"
AttributeError == "AttributeError"
TypeError == "TypeError"

IsList(v) == v[1] = "list"
IsGrid(v) == v[1] = "grid"

EmptyObj == [n \in {} |-> None]
SetAttr(obj, name, v) ==
    [n \in (DOMAIN obj) \cup {name} |-> IF n = name THEN v ELSE obj[n]]

---------------------------------------------------------------------------
\* The classes and their signatures

Classes == {"PICMI_FieldDiagnostic", "PICMI_ElectrostaticFieldDiagnostic",
            "PICMI_ParticleDiagnostic", "PICMI_LabFrameFieldDiagnostic",
            "PICMI_LabFrameParticleDiagnostic"}

FieldClasses == {"PICMI_FieldDiagnostic", "PICMI_ElectrostaticFieldDiagnostic"}
LabFrameClasses == {"PICMI_LabFrameFieldDiagnostic", "PICMI_LabFrameParticleDiagnostic"}

GeometryNames == {"number_of_cells", "lower_bound", "upper_bound"}

\* The named parameters of each __init__ (all but self and **kw)
Params(c) ==
    CASE c \in FieldClasses ->
           {"grid", "period", "data_list", "write_dir", "step_min", "step_max",
            "number_of_cells", "lower_bound", "upper_bound"}
      [] c = "PICMI_ParticleDiagnostic" ->
           {"period", "species", "data_list", "write_dir", "step_min", "step_max"}
      [] c = "PICMI_LabFrameFieldDiagnostic" ->
           {"num_snapshots", "dt_snapshots", "data_list", "write_dir"}
      [] c = "PICMI_LabFrameParticleDiagnostic" ->
           {"num_snapshots", "dt_snapshots", "species", "data_list", "write_dir"}

\* Required with a plausible fault (used for C5): grid = None in the signature
RequiredGridOptional(c) ==
    CASE c \in FieldClasses -> {}
      [] c = "PICMI_ParticleDiagnostic" -> {}
      [] c \in LabFrameClasses -> {"num_snapshots", "dt_snapshots"}

\* Required with a plausible fault (used for C6): dt_snapshots = None in the
\* signature
RequiredDtOptional(c) ==
    CASE c \in FieldClasses -> {"grid"}
      [] c = "PICMI_ParticleDiagnostic" -> {}
      [] c \in LabFrameClasses -> {"num_snapshots"}

\* The parameters without a default value
Required(c) ==
    CASE c \in FieldClasses -> {"grid"}
      [] c = "PICMI_ParticleDiagnostic" -> {}
      [] c \in LabFrameClasses -> {"num_snapshots", "dt_snapshots"}

\* The list object created when the def statement of c.__init__ is executed
DefaultListId(c) == c

\* The literal each data_list default is created from
DefaultListLiteral(c) ==
    CASE c \in {"PICMI_FieldDiagnostic", "PICMI_LabFrameFieldDiagnostic"} ->
           <<"rho", "E", "B", "J">>
      [] c = "PICMI_ElectrostaticFieldDiagnostic" -> <<"rho", "phi">>
      [] c \in {"PICMI_ParticleDiagnostic", "PICMI_LabFrameParticleDiagnostic"} ->
           <<"position", "momentum", "weighting">>

\* The default value of parameter p of c.__init__
Default(c, p) ==
    CASE p = "period" -> Val("1")
      [] p = "data_list" -> ListRef(DefaultListId(c))
      [] OTHER -> None

---------------------------------------------------------------------------
\* Attribute access on the grid argument

GridSlot(name) ==
    CASE name = "number_of_cells" -> 2
      [] name = "lower_bound" -> 3
      [] name = "upper_bound" -> 4

HasAttr(g, name) == IsGrid(g) /\ g[GridSlot(name)] # "missing"

GetAttr(g, name) ==
    IF g[GridSlot(name)] = "None" THEN None ELSE Val(g[GridSlot(name)])

---------------------------------------------------------------------------
\* Execution of one constructor call.  The frame m of a call holds
\*   loc     the local variables (the bound parameters)
\*   kw      the **kw mapping
\*   self, fault, events, handed, heap   as the variables of the same names

Ev(op, name) == [op |-> op, name |-> name]

\* Argument binding: a missing required argument raises TypeError before the
\* body runs; an omitted optional parameter gets its default; the keywords
\* that name no parameter are collected in kw.
Enter(c, a, h) ==
    LET supplied == {n \in DOMAIN a : a[n] # Omitted}
        missing == {p \in Required(c) : a[p] = Omitted}
    IN  [loc |-> [p \in Params(c) |->
                    IF a[p] = Omitted THEN Default(c, p) ELSE a[p]],
         kw |-> [n \in supplied \ Params(c) |-> a[n]],
         self |-> EmptyObj,
         fault |-> IF missing # {} THEN TypeError ELSE NoFault,
         events |-> << >>,
         handed |-> << >>,
         heap |-> h]

\* ExecStore with a plausible change (used for C10): data_list is stored as a
\* copy, self.data_list = list(data_list)
ExecStoreCopy(m, name) ==
    IF name = "data_list" /\ IsList(m.loc[name])
    THEN LET free == {"copy1", "copy2", "copy3", "copy4"} \ DOMAIN m.heap
             id == IF free = {} THEN "copy1" ELSE CHOOSE x \in free : TRUE
         IN  [m EXCEPT !.self = SetAttr(@, name, ListRef(id)),
                       !.heap = [x \in (DOMAIN m.heap) \cup {id} |->
                                   IF x = id THEN m.heap[m.loc[name][2]]
                                   ELSE m.heap[x]],
                       !.events = Append(@, Ev("store", name))]
    ELSE [m EXCEPT !.self = SetAttr(@, name, m.loc[name]),
                   !.events = Append(@, Ev("store", name))]

\* self.<name> = <name>
ExecStore(m, name) ==
    [m EXCEPT !.self = SetAttr(@, name, m.loc[name]),
              !.events = Append(@, Ev("store", name))]

\* ExecDefault with a plausible fault (used for C1): every test reads
\* number_of_cells
\* (if number_of_cells is None: <name> = grid.<name>)
ExecDefaultCoupled(m, name) ==
    IF m.loc["number_of_cells"] # None THEN m
    ELSE IF HasAttr(m.loc["grid"], name)
         THEN [m EXCEPT !.loc[name] = GetAttr(m.loc["grid"], name),
                        !.events = Append(@, Ev("read", name))]
         ELSE [m EXCEPT !.fault = AttributeError,
                        !.events = Append(@, Ev("read", name))]

\* ExecDefault with a plausible fault (used for C2): the grid attribute is read
\* before the test
\* (g = grid.<name>; if <name> is None: <name> = g)
ExecDefaultEager(m, name) ==
    IF HasAttr(m.loc["grid"], name)
    THEN [m EXCEPT !.loc[name] = IF m.loc[name] = None
                                 THEN GetAttr(m.loc["grid"], name) ELSE @,
                   !.events = Append(@, Ev("read", name))]
    ELSE [m EXCEPT !.fault = AttributeError,
                   !.events = Append(@, Ev("read", name))]

\* ExecDefault with a plausible fault (used for C4): getattr(grid, <name>, None)
ExecDefaultLenient(m, name) ==
    IF m.loc[name] # None THEN m
    ELSE [m EXCEPT !.loc[name] = IF HasAttr(m.loc["grid"], name)
                                 THEN GetAttr(m.loc["grid"], name) ELSE None,
                   !.events = Append(@, Ev("read", name))]

\* if <name> is None: <name> = grid.<name>
ExecDefault(m, name) ==
    IF m.loc[name] # None THEN m
    ELSE IF HasAttr(m.loc["grid"], name)
         THEN [m EXCEPT !.loc[name] = GetAttr(m.loc["grid"], name),
                        !.events = Append(@, Ev("read", name))]
         ELSE [m EXCEPT !.fault = AttributeError,
                        !.events = Append(@, Ev("read", name))]

\* _ClassWithInit.handle_init(kw): the helper keeps the extra named arguments
\* on the object and raises nothing
handle_init(m) ==
    [m EXCEPT !.self = [n \in (DOMAIN m.self) \cup (DOMAIN m.kw) |->
                          IF n \in DOMAIN m.kw THEN m.kw[n] ELSE m.self[n]]]

\* self.handle_init(kw)
ExecHandleInit(m) ==
    handle_init([m EXCEPT !.handed = Append(@, m.kw),
                          !.events = Append(@, Ev("handle_init", "kw"))])

Exec(m, stmt) ==
    CASE stmt[1] = "store" -> ExecStore(m, stmt[2])
      [] stmt[1] = "default" -> ExecDefault(m, stmt[2])
      [] stmt[1] = "handle_init" -> ExecHandleInit(m)

\* The statements of body from the i-th on, until one raises
RECURSIVE RunFrom(_, _, _)
RunFrom(body, i, m) ==
    IF i > Len(body) \/ m.fault # NoFault THEN m
    ELSE RunFrom(body, i + 1, Exec(m, body[i]))

---------------------------------------------------------------------------
\* The bodies of the five constructors

\* The body with a plausible fault (used for C3): the three geometry
\* attributes are stored before they are defaulted
FieldDiagnosticStoreFirst ==
    << <<"store", "grid">>, <<"store", "period">>, <<"store", "data_list">>,
       <<"store", "write_dir">>, <<"store", "step_min">>, <<"store", "step_max">>,
       <<"store", "number_of_cells">>, <<"store", "lower_bound">>,
       <<"store", "upper_bound">>,
       <<"default", "number_of_cells">>, <<"default", "lower_bound">>,
       <<"default", "upper_bound">>,
       <<"handle_init", "kw">> >>

PICMI_FieldDiagnostic_init ==
    << <<"store", "grid">>, <<"store", "period">>, <<"store", "data_list">>,
       <<"store", "write_dir">>, <<"store", "step_min">>, <<"store", "step_max">>,
       <<"default", "number_of_cells">>, <<"default", "lower_bound">>,
       <<"default", "upper_bound">>,
       <<"store", "number_of_cells">>, <<"store", "lower_bound">>,
       <<"store", "upper_bound">>,
       <<"handle_init", "kw">> >>

\* The body with a plausible fault (used for C9): handle_init is called before
\* the geometry is settled
ElectrostaticHandleInitEarly ==
    << <<"store", "grid">>, <<"store", "period">>, <<"store", "data_list">>,
       <<"store", "write_dir">>, <<"store", "step_min">>, <<"store", "step_max">>,
       <<"handle_init", "kw">>,
       <<"default", "number_of_cells">>, <<"default", "lower_bound">>,
       <<"default", "upper_bound">>,
       <<"store", "number_of_cells">>, <<"store", "lower_bound">>,
       <<"store", "upper_bound">> >>

PICMI_ElectrostaticFieldDiagnostic_init ==
    << <<"store", "grid">>, <<"store", "period">>, <<"store", "data_list">>,
       <<"store", "write_dir">>, <<"store", "step_min">>, <<"store", "step_max">>,
       <<"default", "number_of_cells">>, <<"default", "lower_bound">>,
       <<"default", "upper_bound">>,
       <<"store", "number_of_cells">>, <<"store", "lower_bound">>,
       <<"store", "upper_bound">>,
       <<"handle_init", "kw">> >>

PICMI_ParticleDiagnostic_init ==
    << <<"store", "period">>, <<"store", "species">>, <<"store", "data_list">>,
       <<"store", "write_dir">>, <<"store", "step_min">>, <<"store", "step_max">>,
       <<"handle_init", "kw">> >>

PICMI_LabFrameFieldDiagnostic_init ==
    << <<"store", "num_snapshots">>, <<"store", "dt_snapshots">>,
       <<"store", "data_list">>, <<"store", "write_dir">>,
       <<"handle_init", "kw">> >>

PICMI_LabFrameParticleDiagnostic_init ==
    << <<"store", "num_snapshots">>, <<"store", "dt_snapshots">>,
       <<"store", "species">>, <<"store", "data_list">>, <<"store", "write_dir">>,
       <<"handle_init", "kw">> >>

Body(c) ==
    CASE c = "PICMI_FieldDiagnostic" -> PICMI_FieldDiagnostic_init
      [] c = "PICMI_ElectrostaticFieldDiagnostic" -> PICMI_ElectrostaticFieldDiagnostic_init
      [] c = "PICMI_ParticleDiagnostic" -> PICMI_ParticleDiagnostic_init
      [] c = "PICMI_LabFrameFieldDiagnostic" -> PICMI_LabFrameFieldDiagnostic_init
      [] c = "PICMI_LabFrameParticleDiagnostic" -> PICMI_LabFrameParticleDiagnostic_init

\* c(**a) on heap h: the frame when the call ends
Construct(c, a, h) == RunFrom(Body(c), 1, Enter(c, a, h))


---------------------------------------------------------------------------
\* The calls the model makes

GridTags(name) ==
    CASE name = "number_of_cells" -> {"missing", "None", "nc_g"}
      [] name = "lower_bound" -> {"missing", "None", "lb_g"}
      [] name = "upper_bound" -> {"missing", "None", "ub_g"}

Grids == {Grid(a, b, c) : a \in GridTags("number_of_cells"),
                          b \in GridTags("lower_bound"),
                          c \in GridTags("upper_bound")}

FullGrid == Grid("nc_g", "lb_g", "ub_g")

CallerListIds == {"c1"}
CallerLists(h) == (DOMAIN h) \cap CallerListIds

\* The values a call of class c may pass for keyword n, the list objects
\* being those of heap h
ArgValues(c, n, h) ==
    IF n \notin Params(c) /\ n # "warpx_opt" THEN {}
    ELSE CASE n = "grid" -> {None} \cup Grids
           [] n = "period" -> {Val("2")}
           [] n = "data_list" -> {ListRef(id) : id \in CallerLists(h)}
           [] n = "write_dir" -> {Val("out")}
           [] n = "step_min" -> {Val("10")}
           [] n = "step_max" -> {Val("20")}
           [] n = "number_of_cells" -> {None, Val("nc_c")}
           [] n = "lower_bound" -> {None, Val("lb_c")}
           [] n = "upper_bound" -> {None, Val("ub_c")}
           [] n = "species" -> {Val("electrons")}
           [] n = "num_snapshots" -> {Val("3")}
           [] n = "dt_snapshots" -> {Val("dt")}
           [] n = "warpx_opt" -> {Val("w")}

Opt(c, n, h) == {Omitted} \cup ArgValues(c, n, h)

Calls(c, h) ==
    [grid : Opt(c, "grid", h), period : Opt(c, "period", h),
     data_list : Opt(c, "data_list", h), write_dir : Opt(c, "write_dir", h),
     step_min : Opt(c, "step_min", h), step_max : Opt(c, "step_max", h),
     number_of_cells : Opt(c, "number_of_cells", h),
     lower_bound : Opt(c, "lower_bound", h),
     upper_bound : Opt(c, "upper_bound", h),
     species : Opt(c, "species", h),
     num_snapshots : Opt(c, "num_snapshots", h),
     dt_snapshots : Opt(c, "dt_snapshots", h),
     warpx_opt : Opt(c, "warpx_opt", h)]

NoArgs ==
    [grid |-> Omitted, period |-> Omitted, data_list |-> Omitted,
     write_dir |-> Omitted, step_min |-> Omitted, step_max |-> Omitted,
     number_of_cells |-> Omitted, lower_bound |-> Omitted,
     upper_bound |-> Omitted, species |-> Omitted, num_snapshots |-> Omitted,
     dt_snapshots |-> Omitted, warpx_opt |-> Omitted]

\* The calls of the shared-list scenario: only data_list varies, the
\* required arguments are passed
SharedCalls(c, h) ==
    {[NoArgs EXCEPT !.data_list = d,
                    !.grid = IF c \in FieldClasses THEN FullGrid ELSE Omitted,
                    !.num_snapshots = IF c \in LabFrameClasses THEN Val("3") ELSE Omitted,
                    !.dt_snapshots = IF c \in LabFrameClasses THEN Val("dt") ELSE Omitted]
       : d \in Opt(c, "data_list", h)}

\* The default list objects exist once the module is imported; c1 is a list
\* of the caller's
CallerHeap ==
    [id \in Classes \cup {"c1"} |->
       IF id = "c1" THEN <<"E">> ELSE DefaultListLiteral(id)]

---------------------------------------------------------------------------
\* Actions

\* The end of a constructor call whose frame is m: the object goes to the
\* caller unless the call raised
Return(m) ==
    /\ self' = m.self
    /\ fault' = m.fault
    /\ events' = m.events
    /\ handed' = m.handed
    /\ heap' = m.heap
    /\ objs' = IF m.fault = NoFault
               THEN objs (+) SetToBag({[cls |-> cls, args |-> args, self |-> m.self]})
               ELSE objs
    /\ ret' = (m.fault = NoFault)
    /\ pc' = "returned"
    /\ UNCHANGED <<cls, args, edits>>

\* Each action is the whole of one __init__, from argument binding to
\* return or raise
PICMI_FieldDiagnostic ==
    /\ pc = "call"
    /\ cls = "PICMI_FieldDiagnostic"
    /\ \E m \in {Construct("PICMI_FieldDiagnostic", args, heap)} : Return(m)

PICMI_ElectrostaticFieldDiagnostic ==
    /\ pc = "call"
    /\ cls = "PICMI_ElectrostaticFieldDiagnostic"
    /\ \E m \in {Construct("PICMI_ElectrostaticFieldDiagnostic", args, heap)} : Return(m)

PICMI_ParticleDiagnostic ==
    /\ pc = "call"
    /\ cls = "PICMI_ParticleDiagnostic"
    /\ \E m \in {Construct("PICMI_ParticleDiagnostic", args, heap)} : Return(m)

PICMI_LabFrameFieldDiagnostic ==
    /\ pc = "call"
    /\ cls = "PICMI_LabFrameFieldDiagnostic"
    /\ \E m \in {Construct("PICMI_LabFrameFieldDiagnostic", args, heap)} : Return(m)

PICMI_LabFrameParticleDiagnostic ==
    /\ pc = "call"
    /\ cls = "PICMI_LabFrameParticleDiagnostic"
    /\ \E m \in {Construct("PICMI_LabFrameParticleDiagnostic", args, heap)} : Return(m)

\* The caller starts a constructor call
Invoke ==
    /\ pc # "call"
    /\ BagCardinality(objs) < MaxObjs
    /\ \E c \in Classes : \E a \in SharedCalls(c, heap) :
         /\ cls' = c
         /\ args' = a
    /\ pc' = "call"
    /\ UNCHANGED <<heap, objs, self, fault, events, handed, ret, edits>>

\* The caller edits in place the list an object holds: o.data_list.append("x")
EditDataList ==
    /\ pc # "call"
    /\ edits < MaxEdits
    /\ \E o \in BagToSet(objs) :
         /\ IsList(o.self["data_list"])
         /\ heap' = [heap EXCEPT ![o.self["data_list"][2]] = Append(@, "x")]
    /\ edits' = edits + 1
    /\ pc' = "idle"
    /\ UNCHANGED <<objs, cls, args, self, fault, events, handed, ret>>

\* The caller drops an object
Discard ==
    /\ pc # "call"
    /\ \E o \in BagToSet(objs) : objs' = objs (-) SetToBag({o})
    /\ pc' = "idle"
    /\ ret' = FALSE
    /\ UNCHANGED <<heap, cls, args, self, fault, events, handed, edits>>

---------------------------------------------------------------------------
\* Specifications

\* One constructor call, over every combination of arguments
Init ==
    /\ heap = CallerHeap
    /\ objs = EmptyBag
    /\ pc = "call"
    /\ cls \in Classes
    /\ args \in Calls(cls, CallerHeap)
    /\ self = EmptyObj
    /\ fault = NoFault
    /\ events = << >>
    /\ handed = << >>
    /\ ret = FALSE
    /\ edits = 0

Next ==
    \/ PICMI_FieldDiagnostic
    \/ PICMI_ElectrostaticFieldDiagnostic
    \/ PICMI_ParticleDiagnostic
    \/ PICMI_LabFrameFieldDiagnostic
    \/ PICMI_LabFrameParticleDiagnostic

Spec == Init /\ [][Next]_vars

\* Sequences of constructor calls and in-place edits of the lists held
InitShared ==
    /\ heap = CallerHeap
    /\ objs = EmptyBag
    /\ pc = "idle"
    /\ cls = "PICMI_FieldDiagnostic"
    /\ args = NoArgs
    /\ self = EmptyObj
    /\ fault = NoFault
    /\ events = << >>
    /\ handed = << >>
    /\ ret = FALSE
    /\ edits = 0

NextShared ==
    \/ Invoke
    \/ PICMI_FieldDiagnostic
    \/ PICMI_ElectrostaticFieldDiagnostic
    \/ PICMI_ParticleDiagnostic
    \/ PICMI_LabFrameFieldDiagnostic
    \/ PICMI_LabFrameParticleDiagnostic
    \/ EditDataList
    \/ Discard

SpecShared == InitShared /\ [][NextShared]_vars

---------------------------------------------------------------------------
\* Properties

Done == pc = "returned"
Completed == Done /\ fault = NoFault
Given(n) == args[n] # Omitted /\ args[n] # None
GeometryAbsent == \A n \in GeometryNames : ~Given(n)
GridTag(n) == args.grid[GridSlot(n)]
GridLacks(n) == ~IsGrid(args.grid) \/ GridTag(n) = "missing"
Reads == {i \in 1..Len(events) : events[i].op = "read"}
HandleInits == {i \in 1..Len(events) : events[i].op = "handle_init"}
Latest == [cls |-> cls, args |-> args, self |-> self]
Leftover == [n \in {x \in DOMAIN args : args[x] # Omitted} \ Params(cls) |-> args[n]]

\* C1: in a completed construction of a field diagnostic, each geometry field
\* the caller supplied (non-None) is stored as supplied, and each one left as
\* None is stored as the grid's attribute of that name, whatever the caller
\* did with the other two.
C1_IndependentDefaults ==
    (Completed /\ cls \in FieldClasses) =>
       \A n \in GeometryNames :
          /\ n \in DOMAIN self
          /\ BagIn(Latest, objs)
          /\ IF Given(n) THEN self[n] = args[n]
             ELSE /\ IsGrid(args.grid)
                  /\ GridTag(n) # "missing"
                  /\ self[n] = IF GridTag(n) = "None" THEN None ELSE Val(GridTag(n))

\* A completed electrostatic construction with lower_bound supplied and the
\* other two taken from the grid
C1_Witness ==
    /\ Completed
    /\ cls = "PICMI_ElectrostaticFieldDiagnostic"
    /\ args.number_of_cells = Omitted
    /\ args.lower_bound = Val("lb_c")
    /\ args.upper_bound = None
    /\ self["number_of_cells"] = Val("nc_g")
    /\ self["lower_bound"] = Val("lb_c")
    /\ self["upper_bound"] = Val("ub_g")

\* C2: a field diagnostic called with a grid argument and all three geometry
\* fields given completes whatever the grid is, stores the three as given and
\* reads no attribute of the grid.
C2_ExplicitGeometryIgnoresGrid ==
    (Done /\ cls \in FieldClasses /\ args.grid # Omitted
          /\ \A n \in GeometryNames : Given(n)) =>
       /\ fault = NoFault
       /\ ret
       /\ Reads = {}
       /\ \A n \in GeometryNames : n \in DOMAIN self /\ self[n] = args[n]

\* A completed construction with explicit geometry and None as the grid
C2_Witness ==
    /\ Completed
    /\ cls = "PICMI_FieldDiagnostic"
    /\ args.grid = None
    /\ \A n \in GeometryNames : Given(n)
    /\ self["upper_bound"] = Val("ub_c")

\* C3 as stated: after every completed construction of a field diagnostic,
\* none of the three geometry fields is None.
C3_AllPopulated ==
    (Completed /\ cls \in FieldClasses) =>
       \A n \in GeometryNames : n \in DOMAIN self /\ self[n] # None

\* C3 amended: after every completed construction of a field diagnostic, the
\* three geometry fields are set, and one of them is None exactly when the
\* caller left it as None and the grid's attribute of that name is None.
C3_PopulatedUnlessGridNone ==
    (Completed /\ cls \in FieldClasses) =>
       \A n \in GeometryNames :
          /\ n \in DOMAIN self
          /\ (self[n] = None) <=> (~Given(n) /\ GridTag(n) = "None")

\* A completed construction where the grid's lower_bound is None and the
\* other two fields are populated
C3_Witness ==
    /\ Completed
    /\ cls = "PICMI_FieldDiagnostic"
    /\ GeometryAbsent
    /\ args.grid = Grid("nc_g", "None", "ub_g")
    /\ self["lower_bound"] = None
    /\ self["number_of_cells"] = Val("nc_g")
    /\ self["upper_bound"] = Val("ub_g")

C5_OnlyAttributeError ==
    Done =>
       /\ fault \in {NoFault, AttributeError}
       /\ (fault = AttributeError) <=>
             (cls \in FieldClasses /\ \E n \in GeometryNames : ~Given(n) /\ GridLacks(n))

\* C5 amended: a call that omits a required argument (grid; num_snapshots,
\* dt_snapshots) raises TypeError; any other call of a field diagnostic that
\* needs a geometry default the grid does not supply raises AttributeError;
\* every other call completes.
C5_TwoFaultClasses ==
    Done =>
       fault =
         IF \/ cls \in FieldClasses /\ args.grid = Omitted
            \/ cls \in LabFrameClasses
                 /\ (args.num_snapshots = Omitted \/ args.dt_snapshots = Omitted)
         THEN TypeError
         ELSE IF cls \in FieldClasses
                   /\ \E n \in GeometryNames : ~Given(n) /\ GridLacks(n)
              THEN AttributeError
              ELSE NoFault

\* A field diagnostic called without the grid argument has raised TypeError
C5_Witness ==
    /\ Done
    /\ cls = "PICMI_FieldDiagnostic"
    /\ args.grid = Omitted
    /\ \A n \in GeometryNames : Given(n)
    /\ fault = TypeError

\* C6: a lab-frame constructor called without num_snapshots or without
\* dt_snapshots raises and the caller gets no object; called with both, it
\* completes and stores each as passed.
C6_SnapshotsRequired ==
    (Done /\ cls \in LabFrameClasses) =>
       IF args.num_snapshots = Omitted \/ args.dt_snapshots = Omitted
       THEN fault # NoFault /\ ~ret /\ objs = EmptyBag
       ELSE /\ fault = NoFault
            /\ ret
            /\ BagIn(Latest, objs)
            /\ self["num_snapshots"] = args.num_snapshots
            /\ self["dt_snapshots"] = args.dt_snapshots

\* A lab-frame particle call with num_snapshots but no dt_snapshots has raised
C6_Witness ==
    /\ Done
    /\ cls = "PICMI_LabFrameParticleDiagnostic"
    /\ args.num_snapshots = Val("3")
    /\ args.dt_snapshots = Omitted
    /\ fault = TypeError
    /\ ~ret

C7_Documented(c) ==
    CASE c = "PICMI_FieldDiagnostic" -> <<"rho", "E", "B", "J">>
      [] c = "PICMI_LabFrameFieldDiagnostic" -> <<"rho", "E", "B", "J">>
      [] c = "PICMI_ElectrostaticFieldDiagnostic" -> <<"rho", "phi">>
      [] c = "PICMI_ParticleDiagnostic" -> <<"position", "momentum", "weighting">>
      [] c = "PICMI_LabFrameParticleDiagnostic" -> <<"position", "momentum", "weighting">>

C8_DefaultWriteDir ==
    (Completed /\ args.write_dir = Omitted) => self["write_dir"] = Val(".")

\* C9: a constructor that completes has called handle_init exactly once, as
\* its last step, after storing every named parameter, with exactly the
\* keywords of the call that name none of its parameters; a constructor that
\* raises has not called it.
C9_HandleInitLast ==
    Done =>
       IF fault = NoFault
       THEN /\ handed = <<Leftover>>
            /\ HandleInits = {Len(events)}
            /\ \A p \in Params(cls) :
                  \E i \in 1..(Len(events) - 1) : events[i] = Ev("store", p)
       ELSE handed = << >> /\ HandleInits = {}

\* A completed construction that handed a non-empty mapping to handle_init
C9_Witness ==
    /\ Completed
    /\ cls = "PICMI_ElectrostaticFieldDiagnostic"
    /\ args.warpx_opt = Val("w")
    /\ Len(handed) = 1
    /\ DOMAIN handed[1] = {"warpx_opt"}
    /\ handed[1]["warpx_opt"] = Val("w")
    /\ events[Len(events)].op = "handle_init"

Defaulted(o) == o.args.data_list = Omitted
View(o) == heap[o.self["data_list"][2]]
ViewAfter(o) == heap'[o.self["data_list"][2]]

C10_SameList ==
    \A o1, o2 \in BagToSet(objs) :
       (Defaulted(o1) /\ Defaulted(o2) /\ o1.cls = o2.cls) =>
          /\ IsList(o1.self["data_list"])
          /\ o1.self["data_list"] = o2.self["data_list"]
          /\ View(o1) = View(o2)

C10_EditVisible ==
    (edits' = edits + 1) =>
       \A o1 \in BagToSet(objs) :
          (Defaulted(o1) /\ ViewAfter(o1) # View(o1)) =>
             \A o2 \in BagToSet(objs) :
                IF Defaulted(o2) /\ o2.cls = o1.cls
                THEN ViewAfter(o2) = ViewAfter(o1)
                ELSE ~Defaulted(o2) => ViewAfter(o2) = View(o2)

=============================================================================
